---------------------------- MODULE Spec2Model ----------------------------
(*************************************************************************)
(* A model of the firmware filter (src/src/firmware_filter.py) and of    *)
(* the unpacker (src/src/fw_unpacker.py).                                 *)
(*                                                                       *)
(* Python strings are sequences of one-character strings, so that        *)
(* str.lower(), the `in` substring test and str.endswith() are computed  *)
(* and not assumed.  A Python value that may be None is a record         *)
(* [none, val]; a dict is a function whose DOMAIN is its set of keys.    *)
(*                                                                       *)
(* Three specifications share the module:                                *)
(*   SpecFilter  filter_firmware applied to bounded inputs, then applied *)
(*               again to its own result;                                *)
(*   SpecMain    the dispatcher main(), one action per step;             *)
(*   SpecUnpack  the walk of unpack_firmware, one action per file.       *)
(*************************************************************************)
EXTENDS Integers, Sequences, FiniteSets, TLC

VARIABLES
    \* ---- SpecFilter: one call of filter_firmware and a second call on its result
    call_list,        \* the firmware_list argument
    call_domain,      \* the domain argument
    call_industry,    \* the industry argument
    call_vendor,      \* the vendor argument
    call_keywords,    \* the custom_keywords argument
    result,           \* outcome of filter_firmware(call_list, ...)
    result2,          \* outcome of filter_firmware(result, ...) with the same criteria
    fpc,              \* "init" | "filtered" | "refiltered"
    \* ---- SpecMain: the dispatcher
    args,             \* the parsed command line
    fs,               \* the file system the run sees
    pc,               \* position in main()
    firmware_list,    \* main's local firmware_list
    ftp_list,         \* main's local ftp_list
    filtered_list,    \* main's local filtered_list
    stdout,           \* what main printed, as a sequence of events
    calls,            \* calls made and returns received, in order
    \* ---- SpecUnpack: the walk of unpack_firmware
    walk,             \* the files os.walk yields, in order, each with the outcome of extracting it
    widx,             \* index of the next file of the walk
    attempted,        \* indices of the files whose extraction was started
    wlog,             \* what unpack_firmware printed
    wpc               \* "walking" | "returned" | "raised"

filterVars == <<call_list, call_domain, call_industry, call_vendor, call_keywords,
                result, result2, fpc>>
mainVars   == <<args, fs, pc, firmware_list, ftp_list, filtered_list, stdout, calls>>
unpackVars == <<walk, widx, attempted, wlog, wpc>>
vars       == <<filterVars, mainVars, unpackVars>>

---------------------------------------------------------------------------
(* Python values *)

\* Python's None, and a str or list value that is not None.
None == [none |-> TRUE, val |-> <<>>]

Some(v) == [none |-> FALSE, val |-> v]

\* Python truthiness of None, a str or a list: None, '' and [] are false.
Truthy(x) == ~x.none /\ x.val # <<>>

\* str.lower() on the ASCII letters.
ToLower ==
    ("A" :> "a") @@ ("B" :> "b") @@ ("C" :> "c") @@ ("D" :> "d") @@ ("E" :> "e") @@
    ("F" :> "f") @@ ("G" :> "g") @@ ("H" :> "h") @@ ("I" :> "i") @@ ("J" :> "j") @@
    ("K" :> "k") @@ ("L" :> "l") @@ ("M" :> "m") @@ ("N" :> "n") @@ ("O" :> "o") @@
    ("P" :> "p") @@ ("Q" :> "q") @@ ("R" :> "r") @@ ("S" :> "s") @@ ("T" :> "t") @@
    ("U" :> "u") @@ ("V" :> "v") @@ ("W" :> "w") @@ ("X" :> "x") @@ ("Y" :> "y") @@
    ("Z" :> "z")

LowerChar(c) == IF c \in DOMAIN ToLower THEN ToLower[c] ELSE c

Lower(s) == [i \in 1..Len(s) |-> LowerChar(s[i])]

\* Python's `needle in hay` on two strings.
Contains(needle, hay) ==
    \E i \in 0..(Len(hay) - Len(needle)) :
        \A j \in 1..Len(needle) : hay[i + j] = needle[j]

\* dict.get(key) with the default forgotten: None for a missing key.
GetNoDefault(d, key, default) == IF key \in DOMAIN d THEN Some(d[key]) ELSE None

\* dict.get(key, default): the value, as a Python value, or the default.
Get(d, key, default) == IF key \in DOMAIN d THEN Some(d[key]) ELSE default

\* The outcome of a call: a returned value, or an exception that propagates.
Return(v) == [status |-> "return", value |-> v]

Raise(e) == [status |-> e, value |-> <<>>]

---------------------------------------------------------------------------
(* Keyword tables *)

DOMAIN_KEYWORDS ==
    (<<"w","i","f","i">> :> <<
        <<"r","o","u","t","e","r">>,  \* 'router'
        <<"a","c","c","e","s","s"," ","p","o","i","n","t">>,  \* 'access point'
        <<"a","p">>,  \* 'ap'
        <<"w","i","r","e","l","e","s","s">>,  \* 'wireless'
        <<"w","i","f","i">>,  \* 'wifi'
        <<"w","i","-","f","i">>,  \* 'wi-fi'
        <<"w","l","a","n">>,  \* 'wlan'
        <<"w","r">>,  \* 'wr'
        <<"w","a","p">>,  \* 'wap'
        <<"8","0","2",".","1","1">>,  \* '802.11'
        <<"w","r","t">>,  \* 'wrt'
        <<"w","n","r">>,  \* 'wnr'
        <<"w","g","r">>,  \* 'wgr'
        <<"w","d","r">>,  \* 'wdr'
        <<"a","r","c","h","e","r">>,  \* 'archer'
        <<"l","i","n","k","s","y","s">>,  \* 'linksys'
        <<"n","e","t","g","e","a","r">>,  \* 'netgear'
        <<"a","s","u","s">>,  \* 'asus'
        <<"t","p","-","l","i","n","k">>,  \* 'tp-link'
        <<"d","-","l","i","n","k">>  \* 'd-link'
      >>)
    @@ (<<"i","o","t">> :> <<
        <<"i","o","t">>,  \* 'iot'
        <<"i","n","t","e","r","n","e","t"," ","o","f"," ","t","h","i","n","g","s">>,  \* 'internet of things'
        <<"s","m","a","r","t"," ","d","e","v","i","c","e">>,  \* 'smart device'
        <<"c","o","n","n","e","c","t","e","d"," ","d","e","v","i","c","e">>,  \* 'connected device'
        <<"s","e","n","s","o","r">>,  \* 'sensor'
        <<"a","c","t","u","a","t","o","r">>,  \* 'actuator'
        <<"s","m","a","r","t"," ","h","o","m","e">>,  \* 'smart home'
        <<"s","m","a","r","t"," ","b","u","i","l","d","i","n","g">>  \* 'smart building'
      >>)
    @@ (<<"c","a","m","e","r","a">> :> <<
        <<"c","a","m","e","r","a">>,  \* 'camera'
        <<"i","p"," ","c","a","m","e","r","a">>,  \* 'ip camera'
        <<"w","e","b","c","a","m">>,  \* 'webcam'
        <<"s","u","r","v","e","i","l","l","a","n","c","e">>,  \* 'surveillance'
        <<"c","c","t","v">>,  \* 'cctv'
        <<"s","e","c","u","r","i","t","y"," ","c","a","m","e","r","a">>,  \* 'security camera'
        <<"d","v","r">>,  \* 'dvr'
        <<"n","v","r">>,  \* 'nvr'
        <<"v","i","d","e","o"," ","r","e","c","o","r","d","e","r">>  \* 'video recorder'
      >>)
    @@ (<<"s","t","o","r","a","g","e">> :> <<
        <<"s","t","o","r","a","g","e">>,  \* 'storage'
        <<"n","a","s">>,  \* 'nas'
        <<"n","e","t","w","o","r","k"," ","a","t","t","a","c","h","e","d"," ","s","t","o","r","a","g","e">>,  \* 'network attached storage'
        <<"s","a","n">>,  \* 'san'
        <<"r","a","i","d">>,  \* 'raid'
        <<"d","i","s","k">>,  \* 'disk'
        <<"d","r","i","v","e">>,  \* 'drive'
        <<"b","a","c","k","u","p">>  \* 'backup'
      >>)
    @@ (<<"p","r","i","n","t","e","r">> :> <<
        <<"p","r","i","n","t","e","r">>,  \* 'printer'
        <<"s","c","a","n","n","e","r">>,  \* 'scanner'
        <<"m","f","p">>,  \* 'mfp'
        <<"m","u","l","t","i","f","u","n","c","t","i","o","n">>,  \* 'multifunction'
        <<"c","o","p","i","e","r">>,  \* 'copier'
        <<"f","a","x">>,  \* 'fax'
        <<"a","l","l","-","i","n","-","o","n","e">>  \* 'all-in-one'
      >>)
    @@ (<<"v","o","i","p">> :> <<
        <<"v","o","i","p">>,  \* 'voip'
        <<"v","o","i","c","e">>,  \* 'voice'
        <<"i","p"," ","p","h","o","n","e">>,  \* 'ip phone'
        <<"s","i","p">>,  \* 'sip'
        <<"t","e","l","e","p","h","o","n","y">>,  \* 'telephony'
        <<"p","b","x">>,  \* 'pbx'
        <<"c","a","l","l">>,  \* 'call'
        <<"c","o","n","f","e","r","e","n","c","e">>  \* 'conference'
      >>)
    @@ (<<"m","o","d","e","m">> :> <<
        <<"m","o","d","e","m">>,  \* 'modem'
        <<"d","s","l">>,  \* 'dsl'
        <<"a","d","s","l">>,  \* 'adsl'
        <<"v","d","s","l">>,  \* 'vdsl'
        <<"c","a","b","l","e"," ","m","o","d","e","m">>,  \* 'cable modem'
        <<"d","o","c","s","i","s">>,  \* 'docsis'
        <<"f","i","b","e","r">>,  \* 'fiber'
        <<"g","p","o","n">>,  \* 'gpon'
        <<"o","n","t">>  \* 'ont'
      >>)

INDUSTRY_KEYWORDS ==
    (<<"h","e","a","l","t","h","c","a","r","e">> :> <<
        <<"m","e","d","i","c","a","l">>,  \* 'medical'
        <<"h","e","a","l","t","h">>,  \* 'health'
        <<"h","o","s","p","i","t","a","l">>,  \* 'hospital'
        <<"p","a","t","i","e","n","t">>,  \* 'patient'
        <<"c","l","i","n","i","c">>,  \* 'clinic'
        <<"d","i","a","g","n","o","s","t","i","c">>  \* 'diagnostic'
      >>)
    @@ (<<"i","n","d","u","s","t","r","i","a","l">> :> <<
        <<"i","n","d","u","s","t","r","i","a","l">>,  \* 'industrial'
        <<"f","a","c","t","o","r","y">>,  \* 'factory'
        <<"m","a","n","u","f","a","c","t","u","r","i","n","g">>,  \* 'manufacturing'
        <<"a","u","t","o","m","a","t","i","o","n">>,  \* 'automation'
        <<"p","l","c">>,  \* 'plc'
        <<"s","c","a","d","a">>,  \* 'scada'
        <<"i","o","t">>  \* 'iot'
      >>)
    @@ (<<"a","u","t","o","m","o","t","i","v","e">> :> <<
        <<"c","a","r">>,  \* 'car'
        <<"v","e","h","i","c","l","e">>,  \* 'vehicle'
        <<"a","u","t","o","m","o","t","i","v","e">>,  \* 'automotive'
        <<"t","e","l","e","m","a","t","i","c","s">>,  \* 'telematics'
        <<"o","b","d">>  \* 'obd'
      >>)
    @@ (<<"s","m","a","r","t","_","h","o","m","e">> :> <<
        <<"s","m","a","r","t"," ","h","o","m","e">>,  \* 'smart home'
        <<"h","o","m","e"," ","a","u","t","o","m","a","t","i","o","n">>,  \* 'home automation'
        <<"t","h","e","r","m","o","s","t","a","t">>,  \* 'thermostat'
        <<"d","o","o","r","b","e","l","l">>,  \* 'doorbell'
        <<"c","a","m","e","r","a">>,  \* 'camera'
        <<"s","e","c","u","r","i","t","y">>  \* 'security'
      >>)
    @@ (<<"n","e","t","w","o","r","k","i","n","g">> :> <<
        <<"r","o","u","t","e","r">>,  \* 'router'
        <<"s","w","i","t","c","h">>,  \* 'switch'
        <<"g","a","t","e","w","a","y">>,  \* 'gateway'
        <<"f","i","r","e","w","a","l","l">>,  \* 'firewall'
        <<"v","p","n">>,  \* 'vpn'
        <<"n","e","t","w","o","r","k">>  \* 'network'
      >>)
    @@ (<<"e","n","t","e","r","p","r","i","s","e">> :> <<
        <<"e","n","t","e","r","p","r","i","s","e">>,  \* 'enterprise'
        <<"b","u","s","i","n","e","s","s">>,  \* 'business'
        <<"c","o","r","p","o","r","a","t","e">>,  \* 'corporate'
        <<"o","f","f","i","c","e">>  \* 'office'
      >>)
    @@ (<<"e","d","u","c","a","t","i","o","n">> :> <<
        <<"e","d","u","c","a","t","i","o","n">>,  \* 'education'
        <<"s","c","h","o","o","l">>,  \* 'school'
        <<"u","n","i","v","e","r","s","i","t","y">>,  \* 'university'
        <<"c","a","m","p","u","s">>  \* 'campus'
      >>)
    @@ (<<"r","e","t","a","i","l">> :> <<
        <<"p","o","s">>,  \* 'pos'
        <<"p","o","i","n","t"," ","o","f"," ","s","a","l","e">>,  \* 'point of sale'
        <<"r","e","t","a","i","l">>,  \* 'retail'
        <<"k","i","o","s","k">>,  \* 'kiosk'
        <<"p","a","y","m","e","n","t">>  \* 'payment'
      >>)
    @@ (<<"t","e","l","e","c","o","m">> :> <<
        <<"t","e","l","e","c","o","m">>,  \* 'telecom'
        <<"t","e","l","e","c","o","m","m","u","n","i","c","a","t","i","o","n">>,  \* 'telecommunication'
        <<"c","e","l","l","u","l","a","r">>,  \* 'cellular'
        <<"m","o","b","i","l","e">>,  \* 'mobile'
        <<"b","a","s","e"," ","s","t","a","t","i","o","n">>  \* 'base station'
      >>)

---------------------------------------------------------------------------
(* filter_firmware *)

\* Lines 128-141: the keywords list built from the three criteria.
Keywords(domain, industry, custom_keywords) ==
    LET k1 == IF Truthy(domain) /\ domain.val \in DOMAIN DOMAIN_KEYWORDS
              THEN DOMAIN_KEYWORDS[domain.val] ELSE <<>>
        k2 == IF Truthy(industry) /\ industry.val \in DOMAIN INDUSTRY_KEYWORDS
              THEN INDUSTRY_KEYWORDS[industry.val] ELSE <<>>
        k3 == IF Truthy(custom_keywords) THEN custom_keywords.val ELSE <<>>
    IN  k1 \o k2 \o k3

\* Line 152: firmware['vendor'].lower() != vendor.lower()
VendorDiffersCaseSensitive(firmware, vendor) == firmware["vendor"] # vendor.val

VendorDiffers(firmware, vendor) == Lower(firmware["vendor"]) # Lower(vendor.val)

\* Lines 162, 168: any(keyword.lower() in text for keyword in keywords)
AnyKeywordInNoLower(keywords, text) ==
    \E n \in 1..Len(keywords) : Contains(keywords[n], text)

AnyKeywordIn(keywords, text) ==
    \E n \in 1..Len(keywords) : Contains(Lower(keywords[n]), text)

\* Lines 161, 167: firmware.get(key, '')
FieldOrEmpty(firmware, key) == Get(firmware, key, Some(<<>>))

\* The loop body without the `continue` of line 164: a record whose product and
\* url both match is appended twice.
RECURSIVE FilterLoopNoContinue(_, _, _, _, _)
FilterLoopNoContinue(fw_list, i, vendor, keywords, acc) ==
    IF i > Len(fw_list) THEN Return(acc)
    ELSE
        LET firmware == fw_list[i]
            product  == FieldOrEmpty(firmware, "product")
            url      == FieldOrEmpty(firmware, "url")
        IN  IF Truthy(vendor) /\ "vendor" \notin DOMAIN firmware THEN Raise("KeyError")
            ELSE IF Truthy(vendor) /\ VendorDiffers(firmware, vendor)
            THEN FilterLoopNoContinue(fw_list, i + 1, vendor, keywords, acc)
            ELSE IF keywords = <<>>
            THEN FilterLoopNoContinue(fw_list, i + 1, vendor, keywords, Append(acc, firmware))
            ELSE IF product.none \/ url.none THEN Raise("AttributeError")
            ELSE
                LET acc1 == IF AnyKeywordIn(keywords, Lower(product.val))
                            THEN Append(acc, firmware) ELSE acc
                    acc2 == IF AnyKeywordIn(keywords, Lower(url.val))
                            THEN Append(acc1, firmware) ELSE acc1
                IN  FilterLoopNoContinue(fw_list, i + 1, vendor, keywords, acc2)

\* Lines 148-171: the loop over firmware_list from index i on, acc being
\* filtered_list so far.
RECURSIVE FilterLoop(_, _, _, _, _)
FilterLoop(fw_list, i, vendor, keywords, acc) ==
    IF i > Len(fw_list) THEN Return(acc)
    ELSE
        LET firmware == fw_list[i]
            product  == FieldOrEmpty(firmware, "product")
            url      == FieldOrEmpty(firmware, "url")
        IN  \* firmware['vendor'] is evaluated only when vendor is truthy
            IF Truthy(vendor) /\ "vendor" \notin DOMAIN firmware THEN Raise("KeyError")
            ELSE IF Truthy(vendor) /\ VendorDiffers(firmware, vendor)
            THEN FilterLoop(fw_list, i + 1, vendor, keywords, acc)
            ELSE IF keywords = <<>>
            THEN FilterLoop(fw_list, i + 1, vendor, keywords, Append(acc, firmware))
            ELSE IF product.none THEN Raise("AttributeError")
            ELSE IF AnyKeywordIn(keywords, Lower(product.val))
            THEN FilterLoop(fw_list, i + 1, vendor, keywords, Append(acc, firmware))
            ELSE IF url.none THEN Raise("AttributeError")
            ELSE IF AnyKeywordIn(keywords, Lower(url.val))
            THEN FilterLoop(fw_list, i + 1, vendor, keywords, Append(acc, firmware))
            ELSE FilterLoop(fw_list, i + 1, vendor, keywords, acc)

\* filter_firmware without the early return of lines 144-146.
filter_firmware_no_guard(fw_list, domain, industry, vendor, custom_keywords) ==
    FilterLoop(fw_list, 1, vendor, Keywords(domain, industry, custom_keywords), <<>>)

\* Lines 114-171.
filter_firmware(fw_list, domain, industry, vendor, custom_keywords) ==
    LET keywords == Keywords(domain, industry, custom_keywords)
    IN  IF keywords = <<>> /\ ~Truthy(vendor)
        THEN Return(<<>>)
        ELSE FilterLoop(fw_list, 1, vendor, keywords, <<>>)

---------------------------------------------------------------------------
(* SpecFilter: the inputs *)

\* Longest firmware_list given to filter_firmware.
MaxLen == 2

sTPLink     == <<"T","P","-","L","i","n","k">>
sTPLINK     == <<"T","P","-","L","I","N","K">>
sAcme       == <<"A","c","m","e">>
sacme       == <<"a","c","m","e">>
sArcher     == <<"A","r","c","h","e","r"," ","C","7"," ","R","o","u","t","e","r">>
sThermostat == <<"S","m","a","r","t"," ","T","h","e","r","m","o","s","t","a","t">>
sUrlC7      == <<"h","t","t","p",":","/","/","x","/","c","7",".","b","i","n">>
sUrlTherm   == <<"h","t","t","p",":","/","/","x","/","t","h","e","r","m",".","b","i","n">>
sUrlRouter  == <<"h","t","t","p",":","/","/","x","/","R","o","u","t","e","r",".","B","I","N">>
sNAS        == <<"N","A","S","-","1">>
sC7         == <<"C","7">>
sTherm      == <<"t","h","e","r","m">>
sWifi       == <<"w","i","f","i">>
sWiFi       == <<"W","i","F","i">>
sSmartHome  == <<"s","m","a","r","t","_","h","o","m","e">>

\* The two rows of the scenario catalog.
RowArcher == [vendor |-> sTPLink, product |-> sArcher, url |-> sUrlC7]

RowThermostat == [vendor |-> sAcme, product |-> sThermostat, url |-> sUrlTherm]

\* Records given to filter_firmware: the scenario rows, rows without a product
\* or url key, and a row whose vendor cell is empty.
FilterRows ==
    { RowArcher,
      RowThermostat,
      [vendor |-> sacme, url |-> sUrlRouter],
      [vendor |-> sTPLink, product |-> sNAS],
      [vendor |-> sAcme],
      [vendor |-> <<>>, product |-> <<>>, url |-> sUrlC7] }

RECURSIVE SeqsUpTo(_, _)
SeqsUpTo(S, n) ==
    IF n = 0 THEN { <<>> }
    ELSE LET shorter == SeqsUpTo(S, n - 1)
         IN  shorter \cup { Append(s, x) : s \in shorter, x \in S }

DomainArgs   == { None, Some(<<>>), Some(sWifi), Some(sWiFi) }

IndustryArgs == { None, Some(sSmartHome), Some(sWifi) }

VendorArgs   == { None, Some(<<>>), Some(sacme), Some(sTPLINK) }

KeywordArgs  == { None, Some(<<>>), Some(<< sC7 >>), Some(<< <<>> >>),
                  Some(<< sNAS, sTherm >>) }

---------------------------------------------------------------------------
(* SpecFilter *)

MainIdle ==
    /\ args = None /\ fs = None /\ pc = "idle"
    /\ firmware_list = <<>> /\ ftp_list = <<>> /\ filtered_list = <<>>
    /\ stdout = <<>> /\ calls = <<>>

UnpackIdle ==
    /\ walk = <<>> /\ widx = 0 /\ attempted = <<>> /\ wlog = <<>> /\ wpc = "idle"

FilterIdle ==
    /\ call_list = <<>> /\ call_domain = None /\ call_industry = None
    /\ call_vendor = None /\ call_keywords = None
    /\ result = Return(<<>>) /\ result2 = Return(<<>>) /\ fpc = "idle"

InitFilter ==
    /\ call_list \in SeqsUpTo(FilterRows, MaxLen)
    /\ call_domain \in DomainArgs
    /\ call_industry \in IndustryArgs
    /\ call_vendor \in VendorArgs
    /\ call_keywords \in KeywordArgs
    /\ result = Return(<<>>)
    /\ result2 = Return(<<>>)
    /\ fpc = "init"
    /\ MainIdle
    /\ UnpackIdle

\* filtered = filter_firmware(firmware_list, domain, industry, vendor, custom_keywords)
Filter ==
    /\ fpc = "init"
    /\ result' = filter_firmware(call_list, call_domain, call_industry,
                                 call_vendor, call_keywords)
    /\ fpc' = "filtered"
    /\ UNCHANGED <<call_list, call_domain, call_industry, call_vendor, call_keywords,
                   result2, mainVars, unpackVars>>

\* filter_firmware(filtered, domain, industry, vendor, custom_keywords)
Refilter ==
    /\ fpc = "filtered"
    /\ result.status = "return"
    /\ result2' = filter_firmware(result.value, call_domain, call_industry,
                                  call_vendor, call_keywords)
    /\ fpc' = "refiltered"
    /\ UNCHANGED <<call_list, call_domain, call_industry, call_vendor, call_keywords,
                   result, mainVars, unpackVars>>

NextFilter == Filter \/ Refilter

SpecFilter == InitFilter /\ [][NextFilter]_vars

---------------------------------------------------------------------------
(* SpecFilter: the claims *)

Range(s) == { s[i] : i \in 1..Len(s) }

\* a equals b, letter case ignored.
EqualsIgnoreCase(a, b) ==
    /\ Len(a) = Len(b)
    /\ \A i \in 1..Len(a) : LowerChar(a[i]) = LowerChar(b[i])

\* k occurs in text as a contiguous run of characters, letter case ignored.
SubstringIgnoreCase(k, text) ==
    \E from \in 1..(Len(text) + 1) :
        /\ from + Len(k) - 1 <= Len(text)
        /\ EqualsIgnoreCase(k, SubSeq(text, from, from + Len(k) - 1))

\* The text of a field of a record, the empty string when the record lacks it.
FieldText(r, key) == IF key \in DOMAIN r THEN r[key] ELSE <<>>

\* The record with its missing product and url fields made empty strings.
Filled(r) ==
    [vendor |-> r["vendor"], product |-> FieldText(r, "product"), url |-> FieldText(r, "url")]

RecognizedDomain == ~call_domain.none /\ call_domain.val \in DOMAIN DOMAIN_KEYWORDS

RecognizedIndustry == ~call_industry.none /\ call_industry.val \in DOMAIN INDUSTRY_KEYWORDS

\* The active keyword set of the call: domain keywords, industry keywords and
\* custom keywords, as a set.
ActiveKeywordSet ==
    (IF RecognizedDomain THEN Range(DOMAIN_KEYWORDS[call_domain.val]) ELSE {})
    \cup (IF RecognizedIndustry THEN Range(INDUSTRY_KEYWORDS[call_industry.val]) ELSE {})
    \cup (IF call_keywords.none THEN {} ELSE Range(call_keywords.val))

\* Some keyword of the active set occurs in the record's product or url.
KeywordMatches(r) ==
    \E k \in ActiveKeywordSet :
        \/ SubstringIgnoreCase(k, FieldText(r, "product"))
        \/ SubstringIgnoreCase(k, FieldText(r, "url"))

HasVendor(r, v) == EqualsIgnoreCase(r["vendor"], v)

\* C1: with an empty active keyword set and no vendor, filter_firmware returns the
\* empty sequence; and the keywords list the code builds is empty exactly when the
\* domain is absent or unrecognized, the industry is absent or unrecognized, and
\* custom_keywords is absent or empty.
C1_NoCriteriaNoResults ==
    fpc # "init" =>
        LET noKeywords ==
                /\ ~RecognizedDomain
                /\ ~RecognizedIndustry
                /\ (call_keywords.none \/ call_keywords.val = <<>>)
        IN  /\ (Keywords(call_domain, call_industry, call_keywords) = <<>>) <=> noKeywords
            /\ (noKeywords /\ call_vendor.none) => result = Return(<<>>)

C1_Witness ==
    /\ fpc = "filtered"
    /\ Len(call_list) = MaxLen
    /\ call_domain = Some(sWiFi) /\ call_industry = Some(sWifi)
    /\ call_keywords = Some(<<>>) /\ call_vendor.none
    /\ result = Return(<<>>)

VendorOnlyCall == call_domain.none /\ call_industry.none /\ call_keywords.none

\* C2 as stated: for every vendor string V, the vendor-only call returns exactly
\* the records whose vendor equals V case-insensitively, in order.
C2_VendorOnlyEveryString ==
    (fpc # "init" /\ VendorOnlyCall /\ ~call_vendor.none) =>
        LET Test(r) == HasVendor(r, call_vendor.val)
        IN  result = Return(SelectSeq(call_list, Test))

\* C2: for every non-empty vendor string V, the vendor-only call returns exactly
\* the subsequence of the records whose vendor equals V case-insensitively, in the
\* original order, none omitted, added or repeated.
C2_VendorOnlyNonEmpty ==
    (fpc # "init" /\ VendorOnlyCall /\ ~call_vendor.none /\ call_vendor.val # <<>>) =>
        LET Test(r) == HasVendor(r, call_vendor.val)
        IN  result = Return(SelectSeq(call_list, Test))

C2_Witness ==
    /\ fpc = "filtered" /\ VendorOnlyCall
    /\ call_vendor = Some(sacme)
    /\ call_list = << RowArcher, RowThermostat >>
    /\ result = Return(<< RowThermostat >>)

\* A vendor is given when the argument is a non-empty string (Python truthiness,
\* as the code tests it).
VendorGiven == ~call_vendor.none /\ call_vendor.val # <<>>

\* C3: with a non-empty active keyword set, the result is exactly the subsequence,
\* in the original order, of the records that pass the vendor filter (when a vendor
\* is given) and have a keyword of the set as a case-insensitive substring of their
\* product or url.
C3_KeywordFilterExact ==
    (fpc # "init" /\ ActiveKeywordSet # {}) =>
        LET Test(r) == (VendorGiven => HasVendor(r, call_vendor.val)) /\ KeywordMatches(r)
        IN  result = Return(SelectSeq(call_list, Test))

C3_Witness ==
    /\ fpc = "filtered"
    /\ call_domain = Some(sWifi) /\ call_industry.none /\ call_keywords.none
    /\ call_vendor.none
    /\ call_list = << RowArcher, RowThermostat >>
    /\ result = Return(<< RowArcher >>)

\* C4: filtering the result of filter_firmware again with the same criteria gives
\* the identical sequence.
C4_Idempotent == fpc = "refiltered" => result2 = result

C4_Witness ==
    /\ fpc = "refiltered"
    /\ result.value # <<>>
    /\ Len(result.value) < Len(call_list)
    /\ result2 = result

LacksField(r) == "product" \notin DOMAIN r \/ "url" \notin DOMAIN r

---------------------------------------------------------------------------
(* SpecMain: the dispatcher *)

\* Longest catalog a file holds.
MaxCatalog == 2

\* Largest --limit tried (the smallest is -1).
MaxLimit == 3

\* Line 301: the preview shows the first 20 matches.
PREVIEW_ROWS == 20

sUrlFtp == <<"f","t","p",":","/","/","x","/","f","w",".","b","i","n">>

RowFtp == [vendor |-> sAcme, product |-> sNAS, url |-> sUrlFtp]

\* Catalog rows carry the vendor, product and url columns.
MainRows == { RowArcher, RowThermostat }

\* What a catalog path holds: a readable file with its rows, a file that exists
\* and cannot be read, or nothing; for a missing file, whether the parent
\* directory is absent, can be listed, or exists and cannot be listed.
FileStates(rows) ==
    { [kind |-> "readable", rows |-> r, dir |-> "listable"] : r \in SeqsUpTo(rows, MaxCatalog) }
    \cup { [kind |-> "unreadable", rows |-> <<>>, dir |-> "listable"] }
    \cup { [kind |-> "missing", rows |-> <<>>, dir |-> d] :
               d \in {"absent", "listable", "unlistable"} }

Unseen == [kind |-> "unseen", rows |-> <<>>, dir |-> "unseen"]

\* The output directory: present, absent and creatable, or absent and not creatable.
OutputStates == { "exists", "creatable", "uncreatable" }

ArgSets ==
    [ domain : {None, Some(sWifi)},
      industry : {None},
      vendor : {None, Some(sacme)},
      keyword : {None, Some(<< <<>> >>)},
      list_domains : BOOLEAN,
      list_industries : BOOLEAN,
      list_only : BOOLEAN,
      limit : -1..MaxLimit,
      unpack : BOOLEAN,
      test_csv : BOOLEAN ]

Line(kind, rows, more) == [line |-> kind, rows |-> rows, more |-> more]

Call(fn, arg) == [fn |-> fn, arg |-> arg]

Take(s, n) == SubSeq(s, 1, IF n < Len(s) THEN n ELSE Len(s))

\* Lines 72-92: the rows, or [] with an error message for a missing or
\* unreadable file.
load_firmware_list(file) ==
    IF file.kind = "missing"
    THEN [rows |-> <<>>, out |-> << Line("Error: CSV file not found", <<>>, 0) >>]
    ELSE IF file.kind = "unreadable"
    THEN [rows |-> <<>>, out |-> << Line("Error loading firmware list", <<>>, 0) >>]
    ELSE [rows |-> file.rows,
          out |-> << Line("Loaded firmware entries", <<>>, Len(file.rows)) >>]

\* Lines 94-112.
load_ftp_list(file) ==
    IF file.kind = "missing"
    THEN [rows |-> <<>>, out |-> << Line("Error: FTP CSV file not found", <<>>, 0) >>]
    ELSE IF file.kind = "unreadable"
    THEN [rows |-> <<>>, out |-> << Line("Error loading FTP list", <<>>, 0) >>]
    ELSE [rows |-> file.rows,
          out |-> << Line("Loaded FTP server entries", <<>>, Len(file.rows)) >>]

\* Line 268 with `or` for `and`.
NoDataEitherEmpty(fw_list, ftp) == fw_list = <<>> \/ ftp = <<>>

\* Line 268: not firmware_list and not ftp_list
NoData(fw_list, ftp) == fw_list = <<>> /\ ftp = <<>>

\* Line 308 without the list-only test.
ShouldDownloadAlways(list_only, filtered) == filtered # <<>>

\* Line 308: not args.list_only and filtered_list
ShouldDownload(list_only, filtered) == ~list_only /\ filtered # <<>>

\* Line 179 without the sign test: a negative limit slices from the end.
LimitListAnyNonZero(fw_list, limit) ==
    IF limit > 0 THEN Take(fw_list, limit)
    ELSE IF limit < 0 THEN SubSeq(fw_list, 1, Len(fw_list) + limit)
    ELSE fw_list

\* Lines 179-180: firmware_list[:limit] when limit is non-zero and positive.
LimitList(fw_list, limit) ==
    IF limit # 0 /\ limit > 0 THEN Take(fw_list, limit) ELSE fw_list

HasKeys(d, keys) == keys \subseteq DOMAIN d

\* Lines 216-242, for one catalog path: "ok", "failed" (all_success = False), or
\* "raised" when os.listdir of an existing parent directory fails (line 238 is
\* outside any try).
TestOne(file) ==
    IF file.kind = "readable" THEN "ok"
    ELSE IF file.kind = "unreadable" THEN "failed"
    ELSE IF file.dir = "unlistable" THEN "raised"
    ELSE "failed"

InitMain ==
    /\ args \in ArgSets
    /\ fs = [csv |-> Unseen, ftp_csv |-> Unseen, output |-> "unseen"]
    /\ pc = "start"
    /\ firmware_list = <<>> /\ ftp_list = <<>> /\ filtered_list = <<>>
    /\ stdout = <<>> /\ calls = <<>>
    /\ FilterIdle
    /\ UnpackIdle

\* Lines 208-248: --test-csv.
TestCsv ==
    /\ pc = "start"
    /\ args.test_csv
    /\ \E f1 \in FileStates(MainRows), f2 \in FileStates({RowFtp}) :
          IF TestOne(f1) = "raised"
          THEN /\ fs' = [fs EXCEPT !.csv = f1]
               /\ stdout' = Append(stdout, Line("ERROR: CSV file not found", <<>>, 0))
               /\ pc' = "raised"
          ELSE IF TestOne(f2) = "raised"
          THEN /\ fs' = [fs EXCEPT !.csv = f1, !.ftp_csv = f2]
               /\ stdout' = Append(stdout, Line("ERROR: CSV file not found", <<>>, 0))
               /\ pc' = "raised"
          ELSE /\ fs' = [fs EXCEPT !.csv = f1, !.ftp_csv = f2]
               /\ stdout' = Append(stdout,
                                   IF TestOne(f1) = "ok" /\ TestOne(f2) = "ok"
                                   THEN Line("SUCCESS: All CSV files can be accessed and read.", <<>>, 0)
                                   ELSE Line("WARNING: Some CSV files could not be accessed or read.", <<>>, 0))
               /\ pc' = "done"
    /\ UNCHANGED <<args, firmware_list, ftp_list, filtered_list, calls,
                   filterVars, unpackVars>>

\* Lines 251-255: --list-domains.
ListDomains ==
    /\ pc = "start"
    /\ ~args.test_csv /\ args.list_domains
    /\ stdout' = Append(stdout, Line("Available application domains:", <<>>,
                                     Cardinality(DOMAIN DOMAIN_KEYWORDS)))
    /\ pc' = "done"
    /\ UNCHANGED <<args, fs, firmware_list, ftp_list, filtered_list, calls,
                   filterVars, unpackVars>>

\* Lines 258-262: --list-industries.
ListIndustries ==
    /\ pc = "start"
    /\ ~args.test_csv /\ ~args.list_domains /\ args.list_industries
    /\ stdout' = Append(stdout, Line("Available industries:", <<>>,
                                     Cardinality(DOMAIN INDUSTRY_KEYWORDS)))
    /\ pc' = "done"
    /\ UNCHANGED <<args, fs, firmware_list, ftp_list, filtered_list, calls,
                   filterVars, unpackVars>>

\* Lines 265-266: both catalogs are loaded.
LoadCatalogs ==
    /\ pc = "start"
    /\ ~args.test_csv /\ ~args.list_domains /\ ~args.list_industries
    /\ \E f1 \in FileStates(MainRows), f2 \in FileStates({RowFtp}) :
          LET fw  == load_firmware_list(f1)
              ftp == load_ftp_list(f2)
          IN  /\ fs' = [fs EXCEPT !.csv = f1, !.ftp_csv = f2]
              /\ firmware_list' = fw.rows
              /\ ftp_list' = ftp.rows
              /\ stdout' = stdout \o fw.out \o ftp.out
              /\ calls' = calls \o << Call("load_firmware_list", <<>>),
                                      Call("load_ftp_list", <<>>) >>
    /\ pc' = "loaded"
    /\ UNCHANGED <<args, filtered_list, filterVars, unpackVars>>

\* Lines 268-270: nothing loaded, main returns.
NoDataReturn ==
    /\ pc = "loaded"
    /\ NoData(firmware_list, ftp_list)
    /\ stdout' = Append(stdout, Line("Error: Could not load any firmware data.", <<>>, 0))
    /\ pc' = "done"
    /\ UNCHANGED <<args, fs, firmware_list, ftp_list, filtered_list, calls,
                   filterVars, unpackVars>>

\* Lines 272-296: the total is printed, firmware_list is filtered and the number
\* of matches is printed.
FilterStep ==
    /\ pc = "loaded"
    /\ ~NoData(firmware_list, ftp_list)
    /\ LET r == filter_firmware(firmware_list, args.domain, args.industry,
                                args.vendor, args.keyword)
       IN  /\ calls' = Append(calls, Call("filter_firmware", firmware_list))
           /\ IF r.status = "return"
              THEN /\ filtered_list' = r.value
                   /\ stdout' = stdout \o
                        << Line("Total firmware entries available",
                                <<>>, Len(firmware_list) + Len(ftp_list)),
                           Line("Found", <<>>, Len(r.value)) >>
                   /\ pc' = "filtered"
              ELSE /\ filtered_list' = filtered_list
                   /\ stdout' = Append(stdout, Line("Total firmware entries available",
                                                    <<>>, Len(firmware_list) + Len(ftp_list)))
                   /\ pc' = "raised"
    /\ UNCHANGED <<args, fs, firmware_list, ftp_list, filterVars, unpackVars>>

\* Lines 299-305: the first 20 matches are printed, with the number of the rest.
Preview ==
    /\ pc = "filtered"
    /\ LET shown == Take(filtered_list, PREVIEW_ROWS)
       IN  IF filtered_list = <<>>
           THEN stdout' = stdout /\ pc' = "previewed"
           ELSE IF \E i \in 1..Len(shown) : ~HasKeys(shown[i], {"vendor", "product", "url"})
           THEN stdout' = stdout /\ pc' = "raised"
           ELSE /\ stdout' = Append(stdout,
                        Line("Filtered Firmware List:", shown,
                             IF Len(filtered_list) > PREVIEW_ROWS
                             THEN Len(filtered_list) - PREVIEW_ROWS ELSE 0))
                /\ pc' = "previewed"
    /\ UNCHANGED <<args, fs, firmware_list, ftp_list, filtered_list, calls,
                   filterVars, unpackVars>>

\* Line 308 false: main ends without downloading.
SkipDownload ==
    /\ pc = "previewed"
    /\ ~ShouldDownload(args.list_only, filtered_list)
    /\ pc' = "done"
    /\ UNCHANGED <<args, fs, firmware_list, ftp_list, filtered_list, stdout, calls,
                   filterVars, unpackVars>>

\* Lines 309, 173-185: download_filtered_firmware up to the call of download_firmware.
DownloadStart ==
    /\ pc = "previewed"
    /\ ShouldDownload(args.list_only, filtered_list)
    /\ \E out \in OutputStates :
          LET limited == LimitList(filtered_list, args.limit)
              urls    == [i \in 1..Len(limited) |-> limited[i]["url"]]
          IN  /\ fs' = [fs EXCEPT !.output = out]
              /\ IF out = "uncreatable"
                    \/ \E i \in 1..Len(limited) : ~HasKeys(limited[i], {"url"})
                 THEN stdout' = stdout /\ calls' = calls /\ pc' = "raised"
                 ELSE /\ stdout' = Append(stdout, Line("Downloading", <<>>, Len(urls)))
                      /\ calls' = Append(calls, Call("download_firmware", urls))
                      /\ pc' = "downloading"
    /\ UNCHANGED <<args, firmware_list, ftp_list, filtered_list, filterVars, unpackVars>>

\* Lines 185-187, 310: download_firmware returns and the count is printed.
DownloadReturns ==
    /\ pc = "downloading"
    /\ calls' = Append(calls, Call("download_firmware returned", <<>>))
    /\ stdout' = Append(stdout, Line("Downloaded", <<>>, Len(calls[Len(calls)].arg)))
    /\ pc' = "downloaded"
    /\ UNCHANGED <<args, fs, firmware_list, ftp_list, filtered_list, filterVars, unpackVars>>

\* Line 185: download_firmware raises; nothing in main catches it.
DownloadRaises ==
    /\ pc = "downloading"
    /\ pc' = "raised"
    /\ UNCHANGED <<args, fs, firmware_list, ftp_list, filtered_list, stdout, calls,
                   filterVars, unpackVars>>

\* Lines 313-315: --unpack.
UnpackStart ==
    /\ pc = "downloaded"
    /\ args.unpack
    /\ stdout' = Append(stdout, Line("Unpacking downloaded firmware...", <<>>, 0))
    /\ calls' = Append(calls, Call("unpack_firmware", <<>>))
    /\ pc' = "unpacking"
    /\ UNCHANGED <<args, fs, firmware_list, ftp_list, filtered_list, filterVars, unpackVars>>

\* Line 315: unpack_firmware returns, main ends.
UnpackReturns ==
    /\ pc = "unpacking"
    /\ calls' = Append(calls, Call("unpack_firmware returned", <<>>))
    /\ pc' = "done"
    /\ UNCHANGED <<args, fs, firmware_list, ftp_list, filtered_list, stdout,
                   filterVars, unpackVars>>

\* Line 315: unpack_firmware raises; nothing in main catches it.
UnpackRaises ==
    /\ pc = "unpacking"
    /\ pc' = "raised"
    /\ UNCHANGED <<args, fs, firmware_list, ftp_list, filtered_list, stdout, calls,
                   filterVars, unpackVars>>

\* Line 313 false: main ends after the download.
NoUnpack ==
    /\ pc = "downloaded"
    /\ ~args.unpack
    /\ pc' = "done"
    /\ UNCHANGED <<args, fs, firmware_list, ftp_list, filtered_list, stdout, calls,
                   filterVars, unpackVars>>

NextMain ==
    \/ TestCsv \/ ListDomains \/ ListIndustries
    \/ LoadCatalogs \/ NoDataReturn \/ FilterStep \/ Preview
    \/ SkipDownload \/ DownloadStart \/ DownloadReturns \/ DownloadRaises
    \/ UnpackStart \/ UnpackReturns \/ UnpackRaises \/ NoUnpack

SpecMain == InitMain /\ [][NextMain]_vars

---------------------------------------------------------------------------
(* SpecMain: the claims *)

HasCall(fn) == \E i \in 1..Len(calls) : calls[i].fn = fn

CountCalls(fn) == Cardinality({ i \in 1..Len(calls) : calls[i].fn = fn })

Introspective == args.test_csv \/ args.list_domains \/ args.list_industries

\* C6: with --list-only neither download_firmware nor unpack_firmware is ever
\* called, whatever the filter result, the limit and the unpack toggle; and once
\* the matches have been found, the preview of the first 20 of them is printed.
C6_ListOnlyNeverDownloads ==
    args.list_only =>
        /\ ~HasCall("download_firmware")
        /\ ~HasCall("unpack_firmware")
        /\ pc \notin {"downloading", "downloaded", "unpacking"}
        /\ (pc \in {"previewed", "done"} /\ filtered_list # <<>>) =>
               \E i \in 1..Len(stdout) :
                   /\ stdout[i].line = "Filtered Firmware List:"
                   /\ stdout[i].rows = Take(filtered_list, PREVIEW_ROWS)

C6_Witness ==
    /\ args.list_only /\ args.unpack /\ args.limit = 1
    /\ pc = "done"
    /\ Len(filtered_list) = 2
    /\ stdout[Len(stdout)] = Line("Filtered Firmware List:", filtered_list, 0)
    /\ ~HasCall("download_firmware")

\* C7: a load of a missing or unreadable catalog returns the empty sequence and
\* main goes on (the second catalog is still loaded); main ends before calling
\* filter_firmware if and only if both loads returned empty, and then calls neither
\* downloader nor unpacker; otherwise filter_firmware is called, on firmware_list
\* as loaded, also when only one of the two catalogs loaded.
C7_HaltsIffBothEmpty ==
    HasCall("load_firmware_list") =>
        /\ HasCall("load_ftp_list")
        /\ fs.csv.kind \in {"missing", "unreadable"} => firmware_list = <<>>
        /\ fs.ftp_csv.kind \in {"missing", "unreadable"} => ftp_list = <<>>
        /\ fs.csv.kind = "readable" => firmware_list = fs.csv.rows
        /\ fs.ftp_csv.kind = "readable" => ftp_list = fs.ftp_csv.rows
        /\ pc # "loaded" =>
               (HasCall("filter_firmware") <=> ~(firmware_list = <<>> /\ ftp_list = <<>>))
        /\ (firmware_list = <<>> /\ ftp_list = <<>>) =>
               /\ pc \in {"loaded", "done"}
               /\ ~HasCall("download_firmware") /\ ~HasCall("unpack_firmware")
        /\ \A i \in 1..Len(calls) :
               calls[i].fn = "filter_firmware" => calls[i].arg = firmware_list

C7_Witness ==
    /\ fs.csv.kind = "missing" /\ fs.ftp_csv.kind = "readable"
    /\ firmware_list = <<>> /\ ftp_list # <<>>
    /\ HasCall("filter_firmware")
    /\ pc = "done"

\* C9: in a run with --test-csv, --list-domains or --list-industries main prints
\* and returns without loading a catalog, without calling filter_firmware,
\* downloader or unpacker, and ends normally.
C9_IntrospectiveReturnsEarly ==
    Introspective =>
        /\ calls = <<>>
        /\ firmware_list = <<>> /\ ftp_list = <<>> /\ filtered_list = <<>>
        /\ pc \in {"start", "done"}
        /\ pc = "done" => stdout # <<>>

\* C10: download_firmware is called at most once, exactly once when main is past
\* the start of the download, only with a non-empty filter result, with the url
\* fields of the first `limit` matches in order when limit > 0 (all of them when
\* fewer match) and of all matches when limit <= 0; unpack_firmware is called only
\* with --unpack and only after download_firmware has returned.
C10_DownloadContract ==
    LET n == IF args.limit > 0 /\ args.limit < Len(filtered_list)
             THEN args.limit ELSE Len(filtered_list)
        expected == [i \in 1..n |-> filtered_list[i]["url"]]
    IN  /\ CountCalls("download_firmware") <= 1
        /\ pc \in {"downloading", "downloaded", "unpacking"} =>
               CountCalls("download_firmware") = 1
        /\ \A i \in 1..Len(calls) :
               calls[i].fn = "download_firmware" =>
                   /\ filtered_list # <<>>
                   /\ calls[i].arg = expected
        /\ \A i \in 1..Len(calls) :
               calls[i].fn = "unpack_firmware" =>
                   /\ args.unpack
                   /\ \E j \in 1..(i - 1) : calls[j].fn = "download_firmware returned"
        /\ CountCalls("unpack_firmware") <= 1

C10_Witness ==
    /\ pc = "done"
    /\ args.limit = 1 /\ args.unpack
    /\ Len(filtered_list) = 2
    /\ \E i \in 1..Len(calls) :
           calls[i] = Call("download_firmware", << filtered_list[1]["url"] >>)
    /\ HasCall("unpack_firmware returned")

---------------------------------------------------------------------------
(* SpecUnpack: unpack_firmware *)

\* Most files under the directory walked.
MaxFiles == 2

sDotZip == <<".","z","i","p">>
sAZip   == <<"a",".","z","i","p">>
sBZip   == <<"b",".","z","i","p">>
sCZIP   == <<"c",".","Z","I","P">>
sDBin   == <<"d",".","b","i","n">>

\* What extracting a file does: binwalk succeeds ("ok"), binwalk exits non-zero
\* (subprocess.CalledProcessError), or os.makedirs or the start of binwalk fails
\* (an OSError: FileExistsError, PermissionError, FileNotFoundError).
Outcomes == { "ok", "CalledProcessError", "OSError" }

WalkFiles == [ name : {sAZip, sBZip, sCZIP, sDBin}, outcome : Outcomes ]

\* str.endswith
EndsWith(s, suffix) ==
    /\ Len(s) >= Len(suffix)
    /\ SubSeq(s, Len(s) - Len(suffix) + 1, Len(s)) = suffix

\* Line 7: file.endswith('.zip')
IsArchive(file) == EndsWith(file.name, sDotZip)

InitUnpack ==
    /\ walk \in SeqsUpTo(WalkFiles, MaxFiles)
    /\ widx = 1
    /\ attempted = <<>>
    /\ wlog = <<>>
    /\ wpc = "walking"
    /\ FilterIdle
    /\ MainIdle

\* Line 7 false: the file is passed over.
SkipFile ==
    /\ wpc = "walking" /\ widx <= Len(walk)
    /\ ~IsArchive(walk[widx])
    /\ widx' = widx + 1
    /\ UNCHANGED <<walk, attempted, wlog, wpc, filterVars, mainVars>>

\* Lines 8-17: binwalk extracts the archive.
ExtractOk ==
    /\ wpc = "walking" /\ widx <= Len(walk)
    /\ IsArchive(walk[widx])
    /\ walk[widx].outcome = "ok"
    /\ attempted' = Append(attempted, widx)
    /\ wlog' = Append(wlog, [line |-> "Unpacked file using binwalk", file |-> widx])
    /\ widx' = widx + 1
    /\ UNCHANGED <<walk, wpc, filterVars, mainVars>>

\* Lines 16, 18-19: binwalk exits non-zero; the failure is printed and the walk
\* goes on.
ExtractFailsLogged ==
    /\ wpc = "walking" /\ widx <= Len(walk)
    /\ IsArchive(walk[widx])
    /\ walk[widx].outcome = "CalledProcessError"
    /\ attempted' = Append(attempted, widx)
    /\ wlog' = Append(wlog, [line |-> "Failed to unpack file", file |-> widx])
    /\ widx' = widx + 1
    /\ UNCHANGED <<walk, wpc, filterVars, mainVars>>

\* Lines 12, 16: an exception that is not a CalledProcessError is not caught by
\* line 18 and leaves unpack_firmware.
ExtractRaises ==
    /\ wpc = "walking" /\ widx <= Len(walk)
    /\ IsArchive(walk[widx])
    /\ walk[widx].outcome = "OSError"
    /\ attempted' = Append(attempted, widx)
    /\ wpc' = "raised"
    /\ UNCHANGED <<walk, widx, wlog, filterVars, mainVars>>

\* Line 5: the walk is exhausted, unpack_firmware returns.
WalkDone ==
    /\ wpc = "walking" /\ widx > Len(walk)
    /\ wpc' = "returned"
    /\ UNCHANGED <<walk, widx, attempted, wlog, filterVars, mainVars>>

NextUnpack == SkipFile \/ ExtractOk \/ ExtractFailsLogged \/ ExtractRaises \/ WalkDone

SpecUnpack == InitUnpack /\ [][NextUnpack]_vars

\* C8: a failure while extracting one archive, of whatever kind, is logged for
\* that file and never aborts the walk: when unpack_firmware ends, the extraction
\* of every archive under the directory has been attempted.
C8_EveryArchiveAttempted ==
    wpc \in {"returned", "raised"} =>
        \A i \in 1..Len(walk) :
            IsArchive(walk[i]) =>
                \E k \in 1..Len(attempted) : attempted[k] = i

\* The part of C8 the code keeps: a non-zero exit of binwalk is logged and the
\* walk goes on; when no extraction raises anything else, every archive is
\* attempted.
C8_CalledProcessErrorIsLogged ==
    (wpc \in {"returned", "raised"}
     /\ \A i \in 1..Len(walk) : IsArchive(walk[i]) => walk[i].outcome # "OSError") =>
        /\ wpc = "returned"
        /\ \A i \in 1..Len(walk) :
               IsArchive(walk[i]) =>
                   /\ \E k \in 1..Len(attempted) : attempted[k] = i
                   /\ walk[i].outcome # "ok" =>
                          \E k \in 1..Len(wlog) :
                              wlog[k] = [line |-> "Failed to unpack file", file |-> i]

====
